---- MODULE Spec2Model ----
(***************************************************************************)
(* Model of the three NewUser variants of downloads/code/rtc_typing_example *)
(* (.py, 2.py, 3.py) and of the duck-typing validators is_dict_like,        *)
(* is_iterable and is_optional_dict.                                        *)
(*                                                                          *)
(* A Python value is abstracted to what the code can observe of it:         *)
(*   type     its nominal type (read only by isinstance(name, str))         *)
(*   truth    the outcome of its truth test (bool(obj) / not obj):          *)
(*            "True", "False", or "Error" when __bool__/__len__ raises      *)
(*   getitem, setitem, iter                                                 *)
(*            the outcome of looking up __getitem__, __setitem__, __iter__: *)
(*            "present", "absent" (AttributeError), "raises" (the lookup    *)
(*            raises another exception, which hasattr lets through), and    *)
(*            for __iter__ also "blocked" (the class sets __iter__ = None)  *)
(* The value of a Python expression is "True", "False" or "Error" (the      *)
(* evaluation raised an exception other than AssertionError).               *)
(* Assert statements are executed (the interpreter runs without -O).        *)
(***************************************************************************)
EXTENDS Naturals, FiniteSets

VARIABLES
    op,          \* function being called: "none", a validator, or "NewUser"
    arg,         \* the validator's argument obj
    ret,         \* the validator's outcome: "True", "False", "Error"
    variant,     \* which file's NewUser runs: 1, 2 or 3 (0: none)
    name, categories, attributes,   \* NewUser's parameters
    pc,          \* position inside NewUser
    user_obj,    \* the constructed User, or Unset
    saves,       \* number of save_to_database invocations in this call
    result,      \* what save_to_database returned, or Unset
    exc,         \* exception leaving NewUser: "none", "AssertionError", "Error"
    failed       \* the statement that raised it ("" if none)

vars == <<op, arg, ret, variant, name, categories, attributes, pc,
          user_obj, saves, result, exc, failed>>

----------------------------------------------------------------------------
(* The universe of Python values *)

Unset == [type |-> "unset"]

Value(t, tr, g, s, i) ==
    [type |-> t, truth |-> tr, getitem |-> g, setitem |-> s, iter |-> i]

PyNone        == Value("NoneType",  "False", "absent",  "absent",  "absent")
Int0          == Value("int",       "False", "absent",  "absent",  "absent")
Int7          == Value("int",       "True",  "absent",  "absent",  "absent")
StrEmpty      == Value("str",       "False", "present", "absent",  "present")
StrAlice      == Value("str",       "True",  "present", "absent",  "present")
ListEmpty     == Value("list",      "False", "present", "present", "present")
ListAdminUser == Value("list",      "True",  "present", "present", "present")
TupleEmpty    == Value("tuple",     "False", "present", "absent",  "present")
TupleNonEmpty == Value("tuple",     "True",  "present", "absent",  "present")
DictEmpty     == Value("dict",      "False", "present", "present", "present")
DictAge       == Value("dict",      "True",  "present", "present", "present")
SetEmpty      == Value("set",       "False", "absent",  "absent",  "present")
SetNonEmpty   == Value("set",       "True",  "absent",  "absent",  "present")
Generator     == Value("generator", "True",  "absent",  "absent",  "present")

Builtins ==
    {PyNone, Int0, Int7, StrEmpty, StrAlice, ListEmpty, ListAdminUser,
     TupleEmpty, TupleNonEmpty, DictEmpty, DictAge, SetEmpty, SetNonEmpty,
     Generator}

\* Instances of arbitrary classes: every combination of observable behaviour.
Objects ==
    [type    : {"object"},
     truth   : {"True", "False", "Error"},
     getitem : {"present", "absent", "raises"},
     setitem : {"present", "absent", "raises"},
     iter    : {"present", "absent", "raises", "blocked"}]

Values == Builtins \cup Objects

\* Some instances of arbitrary classes, by name.
SeqOnly     == Value("object", "True",  "present", "absent",  "absent")
NdArray     == Value("object", "Error", "present", "present", "present")
NoIter      == Value("object", "True",  "absent",  "absent",  "blocked")
BrokenAttrs == Value("object", "True",  "raises",  "raises",  "raises")
ReadOnlyMap == Value("object", "True",  "present", "absent",  "present")

\* The values NewUser is called with.
Samples == Builtins \cup {SeqOnly, NdArray, NoIter, BrokenAttrs, ReadOnlyMap}

Keys == {"name", "categories", "attributes"}

\* What save_to_database may return: keys is the set of the three keys k for
\* which `k in result` is true; contains = "raises" when the membership test
\* itself raises (a class with __getitem__ but neither __contains__ nor
\* __iter__, whose __getitem__(0) raises KeyError).
Results ==
    [type     : {"result"},
     truth    : {"True", "False", "Error"},
     getitem  : {"present", "absent", "raises"},
     setitem  : {"present", "absent", "raises"},
     keys     : SUBSET Keys,
     contains : {"works", "raises"}]

----------------------------------------------------------------------------
(* Python expressions *)

\* bool(obj), as `assert obj`, `obj and ...` and `not obj` evaluate it
Truth(obj) == obj.truth

\* hasattr(obj, attr): only AttributeError is turned into False
HasAttr(obj, attr) ==
    CASE obj[attr] \in {"present", "blocked"} -> "True"
      [] obj[attr] = "absent"                 -> "False"
      [] obj[attr] = "raises"                 -> "Error"

\* not x
Not(x) == CASE x = "True" -> "False" [] x = "False" -> "True" [] OTHER -> "Error"

\* x and y, x or y: y is evaluated only when x does not decide
And(x, y) == IF x = "True" THEN y ELSE x
Or(x, y)  == IF x = "False" THEN y ELSE x

\* isinstance(name, str)
IsStr(obj) == IF obj.type = "str" THEN "True" ELSE "False"

\* key in result
In(key, res) ==
    IF res.contains = "raises" THEN "Error"
    ELSE IF key \in res.keys THEN "True" ELSE "False"

----------------------------------------------------------------------------
(* The validators (rtc_typing_example2.py and rtc_typing_example3.py) *)

\* hasattr(obj, '__getitem__') and hasattr(obj, '__setitem__')
is_dict_like(obj) == And(HasAttr(obj, "getitem"), HasAttr(obj, "setitem"))

\* Mutant: probes __getitem__ instead of __iter__
is_iterable_ByIndex(obj) == HasAttr(obj, "getitem")

\* hasattr(obj, '__iter__')
is_iterable(obj) == HasAttr(obj, "iter")

\* Mutant: accepts only absent values, the `or is_dict_like(obj)` is lost
is_optional_dict_AbsentOnly(obj) == Not(Truth(obj))

\* not obj or is_dict_like(obj)
is_optional_dict(obj) == Or(Not(Truth(obj)), is_dict_like(obj))

----------------------------------------------------------------------------
(* The statements of NewUser *)

\* assert name and categories
CondTruthy(n, c) == And(Truth(n), Truth(c))

\* assert isinstance(name, str)
CondStr(n) == IsStr(n)

\* variant 1: assert hasattr(categories, '__iter__')
\* variants 2, 3: assert is_iterable(categories)
CondIter(v, c) == IF v = 1 THEN HasAttr(c, "iter") ELSE is_iterable(c)

\* variant 1: assert not attributes or (hasattr(attributes, '__getitem__')
\*                                       and hasattr(attributes, '__setitem__'))
\* variants 2, 3: assert is_optional_dict(attributes)
CondAttrs(v, a) ==
    IF v = 1
    THEN Or(Not(Truth(a)), And(HasAttr(a, "getitem"), HasAttr(a, "setitem")))
    ELSE is_optional_dict(a)

\* variant 3: assert not result or (is_dict_like(result) and 'name' in result
\*              and 'categories' in result and 'attributes' in result)
CondResult(r) ==
    Or(Not(Truth(r)),
       And(is_dict_like(r),
           And(In("name", r), And(In("categories", r), In("attributes", r)))))

\* The exception an assert statement raises for the value of its condition
Raised(cond) == IF cond = "False" THEN "AssertionError" ELSE "Error"

\* The four entry asserts in program order: "pass", or the exception raised
Gate(v, n, c, a) ==
    IF CondTruthy(n, c) # "True" THEN Raised(CondTruthy(n, c))
    ELSE IF CondStr(n) # "True" THEN Raised(CondStr(n))
    ELSE IF CondIter(v, c) # "True" THEN Raised(CondIter(v, c))
    ELSE IF CondAttrs(v, a) # "True" THEN Raised(CondAttrs(v, a))
    ELSE "pass"

----------------------------------------------------------------------------
(* State machine *)

Init ==
    /\ op = "none" /\ arg = Unset /\ ret = "none"
    /\ variant = 0
    /\ name = Unset /\ categories = Unset /\ attributes = Unset
    /\ pc = "idle" /\ user_obj = Unset /\ saves = 0 /\ result = Unset
    /\ exc = "none" /\ failed = ""

\* Nothing has been called yet; each behaviour follows one call to its end
Quiescent == pc = "idle"

\* A validator call leaves NewUser's state alone
NoNewUser ==
    /\ pc' = "done"
    /\ UNCHANGED <<variant, name, categories, attributes, user_obj, saves,
                   result, exc, failed>>

\* is_dict_like(obj) is called with any value
CallIsDictLike ==
    /\ Quiescent
    /\ \E obj \in Values :
         op' = "is_dict_like" /\ arg' = obj /\ ret' = is_dict_like(obj)
    /\ NoNewUser

\* is_iterable(obj) is called with any value
CallIsIterable ==
    /\ Quiescent
    /\ \E obj \in Values :
         op' = "is_iterable" /\ arg' = obj /\ ret' = is_iterable(obj)
    /\ NoNewUser

\* is_optional_dict(obj) is called with any value
CallIsOptionalDict ==
    /\ Quiescent
    /\ \E obj \in Values :
         op' = "is_optional_dict" /\ arg' = obj /\ ret' = is_optional_dict(obj)
    /\ NoNewUser

\* NewUser(name, categories, attributes) of one of the variants is entered
CallNewUser ==
    /\ Quiescent
    /\ op' = "NewUser"
    /\ variant' \in {1, 2, 3}
    /\ name' \in Samples /\ categories' \in Samples /\ attributes' \in Samples
    /\ pc' = "assert_truthy"
    /\ UNCHANGED <<arg, ret, user_obj, saves, result, exc, failed>>

\* An assert statement at `here` whose condition evaluates to cond
AssertStmt(here, cond, next) ==
    /\ pc = here
    /\ IF cond = "True"
       THEN /\ pc' = next
            /\ UNCHANGED <<exc, failed>>
       ELSE /\ pc' = "raised"
            /\ exc' = Raised(cond)
            /\ failed' = here
    /\ UNCHANGED <<op, arg, ret, variant, name, categories, attributes,
                   user_obj, saves, result>>

AssertTruthy == AssertStmt("assert_truthy", CondTruthy(name, categories), "assert_str")

AssertStr == AssertStmt("assert_str", CondStr(name), "assert_iter")

AssertIter == AssertStmt("assert_iter", CondIter(variant, categories), "assert_attrs")

AssertAttrs == AssertStmt("assert_attrs", CondAttrs(variant, attributes), "construct")

\* user_obj = User(name, categories, attributes); User is external and may raise
Construct ==
    /\ pc = "construct"
    /\ \E ok \in BOOLEAN :
         IF ok
         THEN /\ user_obj' = <<name, categories, attributes>>
              /\ pc' = "save"
              /\ UNCHANGED <<exc, failed>>
         ELSE /\ pc' = "raised" /\ exc' = "Error" /\ failed' = "construct"
              /\ UNCHANGED user_obj
    /\ UNCHANGED <<op, arg, ret, variant, name, categories, attributes,
                   saves, result>>

\* Mutant: the save is issued before the last entry assert
SaveToDatabase_Early ==
    /\ pc = "assert_attrs"
    /\ \E r \in Results :
         /\ saves' = saves + 1
         /\ result' = r
         /\ pc' = IF variant = 3 THEN "assert_result" ELSE "returned"
    /\ UNCHANGED <<op, arg, ret, variant, name, categories, attributes,
                   user_obj, exc, failed>>

\* save_to_database(user_obj) returns r; variants 1 and 2 return r at once
SaveToDatabase ==
    /\ pc = "save"
    /\ \E r \in Results :
         /\ saves' = saves + 1
         /\ result' = r
         /\ pc' = IF variant = 3 THEN "assert_result" ELSE "returned"
    /\ UNCHANGED <<op, arg, ret, variant, name, categories, attributes,
                   user_obj, exc, failed>>

\* save_to_database(user_obj) is external and may raise
SaveRaises ==
    /\ pc = "save"
    /\ saves' = saves + 1
    /\ pc' = "raised" /\ exc' = "Error" /\ failed' = "save"
    /\ UNCHANGED <<op, arg, ret, variant, name, categories, attributes,
                   user_obj, result>>

\* Mutant: a malformed result makes the call save once more before failing
AssertResult_Retry ==
    /\ pc = "assert_result"
    /\ IF CondResult(result) = "True"
       THEN /\ pc' = "return" /\ UNCHANGED <<saves, exc, failed>>
       ELSE /\ saves' = saves + 1
            /\ pc' = "raised"
            /\ exc' = Raised(CondResult(result))
            /\ failed' = "assert_result"
    /\ UNCHANGED <<op, arg, ret, variant, name, categories, attributes,
                   user_obj, result>>

\* variant 3, line 26
AssertResult == AssertStmt("assert_result", CondResult(result), "return")

\* variant 3, line 27: return result
Return ==
    /\ pc = "return"
    /\ pc' = "returned"
    /\ UNCHANGED <<op, arg, ret, variant, name, categories, attributes,
                   user_obj, saves, result, exc, failed>>

Next ==
    \/ CallIsDictLike
    \/ CallIsIterable
    \/ CallIsOptionalDict
    \/ CallNewUser
    \/ AssertTruthy
    \/ AssertStr
    \/ AssertIter
    \/ AssertAttrs
    \/ Construct
    \/ SaveToDatabase
    \/ SaveRaises
    \/ AssertResult
    \/ Return

Spec == Init /\ [][Next]_vars

----------------------------------------------------------------------------
(* Vocabulary of the properties *)

Validators == {"is_dict_like", "is_iterable", "is_optional_dict"}

GateStmts == {"assert_truthy", "assert_str", "assert_iter", "assert_attrs"}

\* The value exposes both the read-by-key and the write-by-key operation
ExposesBoth(obj) == obj.getitem = "present" /\ obj.setitem = "present"

\* The value lacks the read-by-key or the write-by-key operation
MissesOne(obj) == obj.getitem = "absent" \/ obj.setitem = "absent"

\* iter(obj) succeeds: the type defines __iter__ (and does not set it to
\* None), or it defines no __iter__ but __getitem__ (the sequence protocol)
CanIterate(obj) ==
    \/ obj.iter = "present"
    \/ obj.iter = "absent" /\ obj.getitem = "present"

\* The four entry conditions, read off the parameters
EntryHolds(n, c, a) ==
    /\ n.truth = "True" /\ c.truth = "True"
    /\ n.type = "str"
    /\ c.iter \in {"present", "blocked"}
    /\ (a.truth = "False" \/ ExposesBoth(a))

\* The call has left the entry gate, one way or the other
GateResolved == op = "NewUser" /\ pc \notin GateStmts

GateFailed == pc = "raised" /\ failed \in GateStmts

\* How the running variant left the gate
GateOutcome == IF GateFailed THEN exc ELSE "pass"

\* The condition of the entry assert the call is at
CondAt(p) ==
    CASE p = "assert_truthy" -> CondTruthy(name, categories)
      [] p = "assert_str"    -> CondStr(name)
      [] p = "assert_iter"   -> CondIter(variant, categories)
      [] p = "assert_attrs"  -> CondAttrs(variant, attributes)

----------------------------------------------------------------------------
(* C1 *)

\* C1 as stated: is_optional_dict returns false for every non-empty list.
C1_NonEmptyListRejected ==
    (op = "is_optional_dict" /\ arg.type = "list" /\ arg.truth = "True")
        => ret = "False"

\* C1 amended: is_optional_dict returns true for every non-empty list (a list
\* exposes both __getitem__ and __setitem__); the present values it rejects
\* are those of the built-in types lacking one of the two: a non-empty
\* string, tuple or set, a non-zero integer, a generator.
C1_NonEmptyListAccepted ==
    op = "is_optional_dict" =>
        /\ (arg.type = "list" /\ arg.truth = "True") => ret = "True"
        /\ (arg \in Builtins /\ arg.truth = "True" /\ ~ExposesBoth(arg))
              => ret = "False"

C1_Witness ==
    op = "is_optional_dict" /\ arg = ListAdminUser /\ ret = "True"

(* C2 *)

\* C2: for every input value each of the three validators returns a boolean
\* and never raises.
C2_ValidatorsNeverRaise ==
    op \in Validators => ret \in {"True", "False"}

(* C3 *)

\* C3: is_iterable returns true if and only if the value can actually be
\* iterated (also when it is iterable only through indexed access), and
\* false for every value that cannot.
C3_IterableIffCanIterate ==
    op = "is_iterable" => ((ret = "True") <=> CanIterate(arg))

(* C4 *)

\* C4: is_dict_like returns true if and only if the value exposes both the
\* read-by-key and the write-by-key operation: true for every dict, false
\* for every value missing at least one of the two (an integer, a string,
\* None).
C4_DictLikeIffBoth ==
    op = "is_dict_like" =>
        /\ (ret = "True") <=> ExposesBoth(arg)
        /\ arg.type = "dict" => ret = "True"
        /\ MissesOne(arg) => ret = "False"

(* C5 *)

\* C5: is_optional_dict returns true if and only if the value is falsy or
\* exposes both operations; true for None and the empty dict, false for every
\* truthy value that lacks one of the two operations.
C5_OptionalDictIff ==
    op = "is_optional_dict" =>
        /\ (ret = "True") <=> (arg.truth = "False" \/ ExposesBoth(arg))
        /\ arg \in {PyNone, DictEmpty} => ret = "True"
        /\ (arg.truth = "True" /\ MissesOne(arg)) => ret = "False"

(* C6 *)

\* User construction and the save happen only after all four entry
\* conditions hold, and a call that failed in the gate has saved nothing.
C6_Inv ==
    op = "NewUser" =>
        /\ (user_obj # Unset \/ saves > 0 \/ result # Unset)
              => EntryHolds(name, categories, attributes)
        /\ GateFailed => (saves = 0 /\ user_obj = Unset /\ result = Unset)

\* An entry assert whose condition is false ends the call with an
\* AssertionError, nothing constructed or saved; a raised call stays raised.
C6_Step ==
    /\ (pc \in GateStmts /\ CondAt(pc) = "False")
          => (pc' = "raised" /\ exc' = "AssertionError" /\ failed' = pc
              /\ saves' = 0 /\ user_obj' = Unset)
    /\ pc = "raised" => (pc' = "raised" /\ saves' = saves /\ exc' = exc)

\* C6: in every variant, on every execution, construction and save happen
\* only after all entry preconditions have passed; a failing precondition
\* aborts the call with a precondition failure that is not caught, and
\* save_to_database is invoked zero times in that call.
C6_SaveOnlyAfterGate == []C6_Inv /\ [][C6_Step]_vars

C6_Witness ==
    /\ op = "NewUser" /\ name = StrEmpty /\ categories = ListAdminUser
    /\ attributes = DictAge
    /\ pc = "raised" /\ exc = "AssertionError" /\ saves = 0

(* C7 *)

\* C7: the entry gate raises a precondition failure exactly when name is
\* falsy or not a string, or categories is falsy or not iterable, or
\* attributes is truthy and not dict-like; for every other input the gate
\* passes without failure.
C7_GateFailsExactlyWhen ==
    GateResolved =>
        LET bad == \/ name.truth = "False" \/ name.type # "str"
                   \/ categories.truth = "False" \/ ~CanIterate(categories)
                   \/ attributes.truth = "True" /\ ~ExposesBoth(attributes)
        IN  /\ bad <=> (GateFailed /\ exc = "AssertionError")
            /\ ~bad => ~GateFailed

(* C8 *)

\* C8: in the third variant every returned value is falsy or a dict-like
\* value containing the three keys; a truthy result that is not dict-like or
\* misses a key makes NewUser raise a precondition failure instead.
C8_ResultValidated ==
    (op = "NewUser" /\ variant = 3) =>
        /\ pc = "returned"
              => (result.truth = "False"
                  \/ (ExposesBoth(result) /\ Keys \subseteq result.keys))
        /\ (pc \in {"returned", "raised"} /\ result # Unset
            /\ result.truth = "True"
            /\ (~ExposesBoth(result) \/ ~(Keys \subseteq result.keys)))
              => (pc = "raised" /\ exc = "AssertionError"
                  /\ failed = "assert_result")

(* C9 *)

\* C9: the entry gates of the three variants are equivalent: however the
\* running variant leaves its gate (passing on towards save_to_database, or
\* raising), each of the three variants' gates does the same for this triple
\* of arguments.
C9_GatesEquivalent ==
    GateResolved =>
        \A w \in {1, 2, 3} :
            Gate(w, name, categories, attributes) = GateOutcome

C9_Witness ==
    /\ op = "NewUser" /\ variant = 2 /\ pc = "save"
    /\ name = StrAlice /\ categories = SetNonEmpty /\ attributes = PyNone

(* C10 *)

\* C10: a precondition failure caused by a malformed result occurs only in
\* the third variant and only after save_to_database has been invoked
\* exactly once; the save is neither undone nor retried, and no call of any
\* variant invokes save_to_database more than once.
C10_SavedOnceBeforeResultFailure ==
    op = "NewUser" =>
        /\ saves <= 1
        /\ (pc = "raised" /\ failed = "assert_result")
              => (variant = 3 /\ saves = 1 /\ result # Unset)
        /\ pc = "returned" => saves = 1

C10_Witness ==
    /\ op = "NewUser" /\ variant = 3 /\ pc = "raised"
    /\ exc = "AssertionError" /\ failed = "assert_result" /\ saves = 1

====
